---- MODULE Spec2Model ----
(***************************************************************************)
(* phitodo: the local task store (SQLite rows behind Repository), the      *)
(* in-memory cache held by App (self.tasks / self.projects), the GitHub    *)
(* fetch running as a background task, the channel on which it delivers,   *)
(* and the reconciliation App::sync_github_to_tasks.                       *)
(*                                                                         *)
(* Representation.  Option<T> is a sequence of length 0 or 1.  A string    *)
(* that the code splits on '/' (a URL, an "owner/repo" name) is the        *)
(* sequence of its '/'-separated segments, so String::split('/') is the    *)
(* identity on the representation and format!("{}/{}", a, b) is <<a, b>>.  *)
(* Utc::now() reads the variable now; every handler that reads the clock   *)
(* runs at a later instant than the handler before it.  A uuid is the      *)
(* number of the row it names.                                             *)
(***************************************************************************)
EXTENDS Integers, Sequences, FiniteSets, TLC

VARIABLES
    db_tasks,       \* table tasks: the rows in rowid order, soft-deleted rows included
    db_projects,    \* table projects, likewise
    tasks,          \* App.tasks: the cache filled by load_data
    projects,       \* App.projects
    chan,           \* async_tx / async_rx: AsyncMessage values sent and not yet received
    inflight,       \* number of spawned GitHub fetch tasks that have not sent yet
    github_view,    \* GitHubView: loading, error and the three columns' items
    current_view,   \* App.current_view
    github_token,   \* App.config.github_token
    now,            \* the clock read by Utc::now()
    last,           \* the latest handler run that read or wrote the store
    fetches,        \* number of fetches fetch_github_data has started
    last_fetch,     \* how the fetch_all ended whose message was sent last
    failed,         \* storage calls that have failed so far
    today,          \* the date of the clock: Utc::now().date_naive()
    result          \* what the latest call taken on its own returned or left

vars == <<db_tasks, db_projects, tasks, projects, chan, inflight, github_view,
          current_view, github_token, now, last, last_fetch, fetches, failed,
          today, result>>

\* The variables of the calls into services/ and ui/components/ that are
\* taken on their own
service_vars == <<today, result>>

----------------------------------------------------------------------------
(* Bounds of the model *)

MaxClock == 3      \* handlers that read the clock run at instants 1..MaxClock
MaxRows == 2       \* rows of the tasks table
MaxChan == 2       \* messages sent and not yet received
MaxInflight == 2   \* fetches started that have not sent their message
MaxItems == 2      \* items of one snapshot, over its three streams
MaxFail == 1       \* storage calls that fail in one run
MaxFetches == 2    \* fetches started by fetch_github_data
MaxDate == 3       \* calendar dates are 1..MaxDate
MaxLen == 2        \* tasks of a list given to the filter service
MaxListLen == 3    \* tasks of a TaskListState

----------------------------------------------------------------------------
(* Option, sequences *)

None == <<>>
Some(x) == <<x>>
IsSome(o) == Len(o) = 1
IsNone(o) == Len(o) = 0

Range(s) == {s[i] : i \in 1..Len(s)}

\* The i-th smallest element of a set of numbers
Nth(S, i) == CHOOSE k \in S : Cardinality({l \in S : l < k}) = i - 1

----------------------------------------------------------------------------
(* models/task.rs, models/project.rs *)

TaskStatus == {"Inbox", "Active", "Scheduled", "Completed", "Cancelled"}

TaskStatus_as_str(s) ==
    CASE s = "Inbox" -> "inbox"
      [] s = "Active" -> "active"
      [] s = "Scheduled" -> "scheduled"
      [] s = "Completed" -> "completed"
      [] s = "Cancelled" -> "cancelled"

TaskStatus_from_str(s) ==
    CASE s = "inbox" -> "Inbox"
      [] s = "active" -> "Active"
      [] s = "scheduled" -> "Scheduled"
      [] s = "completed" -> "Completed"
      [] s = "cancelled" -> "Cancelled"
      [] OTHER -> "Inbox"

TaskKind_as_str(k) ==
    CASE k = "Task" -> "task"
      [] k = "Bug" -> "bug"
      [] k = "Feature" -> "feature"
      [] k = "Chore" -> "chore"
      [] k = "GhIssue" -> "gh:issue"
      [] k = "GhPr" -> "gh:pr"
      [] k = "GhReview" -> "gh:review"

TaskKind_from_str(s) ==
    CASE s = "task" -> Some("Task")
      [] s = "bug" -> Some("Bug")
      [] s = "feature" -> Some("Feature")
      [] s = "chore" -> Some("Chore")
      [] s = "gh:issue" -> Some("GhIssue")
      [] s = "gh:pr" -> Some("GhPr")
      [] s = "gh:review" -> Some("GhReview")
      [] OTHER -> None

\* Task::new(title): id is the fresh uuid, at the current instant.
Task_new(id, title, at) ==
    [ id |-> id, title |-> title, notes |-> None,
      created_at |-> at, updated_at |-> at,
      due_date |-> None, start_date |-> None, completed_at |-> None,
      project_id |-> None, priority |-> "None", tags |-> <<>>,
      status |-> "Inbox", order_index |-> 0, deleted |-> FALSE,
      kind |-> None, size |-> None, assignee |-> None,
      context_url |-> None, metadata |-> <<>> ]

\* Project::new(name)
Project_new(id, name, at) ==
    [ id |-> id, name |-> name, description |-> None, color |-> None,
      icon |-> None, order_index |-> 0, is_inbox |-> FALSE,
      created_at |-> at, updated_at |-> at, deleted |-> FALSE ]

----------------------------------------------------------------------------
(* db/repository.rs.  A row holds what the INSERT / UPDATE statement binds: *)
(* the enums as their as_str() text, the metadata map as NULL when empty.   *)
(* Timestamps are written by to_rfc3339 and read back by                    *)
(* parse_from_rfc3339, which keeps the instant.                             *)

task_params(t) ==
    [ id |-> t.id, title |-> t.title, notes |-> t.notes,
      created_at |-> t.created_at, updated_at |-> t.updated_at,
      due_date |-> t.due_date, start_date |-> t.start_date,
      completed_at |-> t.completed_at, project_id |-> t.project_id,
      priority |-> t.priority, tags |-> t.tags,
      status |-> TaskStatus_as_str(t.status),
      order_index |-> t.order_index, deleted |-> t.deleted,
      kind |-> IF IsSome(t.kind) THEN Some(TaskKind_as_str(t.kind[1])) ELSE None,
      size |-> t.size, assignee |-> t.assignee,
      context_url |-> t.context_url,
      metadata |-> IF t.metadata = <<>> THEN None ELSE Some(t.metadata) ]

row_to_task(r) ==
    [ id |-> r.id, title |-> r.title, notes |-> r.notes,
      created_at |-> r.created_at, updated_at |-> r.updated_at,
      due_date |-> r.due_date, start_date |-> r.start_date,
      completed_at |-> r.completed_at, project_id |-> r.project_id,
      priority |-> r.priority, tags |-> r.tags,
      status |-> TaskStatus_from_str(r.status),
      order_index |-> r.order_index, deleted |-> r.deleted,
      kind |-> IF IsSome(r.kind) THEN TaskKind_from_str(r.kind[1]) ELSE None,
      size |-> r.size, assignee |-> r.assignee,
      context_url |-> r.context_url,
      metadata |-> IF IsSome(r.metadata) THEN r.metadata[1] ELSE <<>> ]

\* INSERT INTO tasks
insert_task(rows, t) == Append(rows, task_params(t))

\* UPDATE tasks SET <every column but id and created_at> WHERE id = ?1
update_task(rows, t) ==
    [i \in 1..Len(rows) |->
        IF rows[i].id = t.id
        THEN [task_params(t) EXCEPT !.created_at = rows[i].created_at]
        ELSE rows[i]]

\* UPDATE tasks SET deleted = 1, updated_at = now WHERE id = ?1
delete_task(rows, id, at) ==
    [i \in 1..Len(rows) |->
        IF rows[i].id = id
        THEN [rows[i] EXCEPT !.deleted = TRUE, !.updated_at = at]
        ELSE rows[i]]

\* ORDER BY order_index ASC, created_at DESC; rows equal in both come in rowid order.
RowBefore(rows, i, j) ==
    \/ rows[i].order_index < rows[j].order_index
    \/ /\ rows[i].order_index = rows[j].order_index
       /\ \/ rows[i].created_at > rows[j].created_at
          \/ rows[i].created_at = rows[j].created_at /\ i < j

RECURSIVE OrderRows(_, _)
OrderRows(rows, idx) ==
    IF idx = {} THEN <<>>
    ELSE LET first == CHOOSE i \in idx : \A j \in idx \ {i} : RowBefore(rows, i, j)
         IN <<rows[first]>> \o OrderRows(rows, idx \ {first})

\* SELECT ... FROM tasks WHERE deleted = 0 ORDER BY order_index ASC, created_at DESC
get_all_tasks(rows) ==
    LET live == OrderRows(rows, {i \in 1..Len(rows) : ~rows[i].deleted})
    IN [i \in 1..Len(live) |-> row_to_task(live[i])]

\* SELECT ... FROM projects WHERE deleted = 0 ORDER BY order_index ASC
RECURSIVE OrderProjects(_, _)
OrderProjects(rows, idx) ==
    IF idx = {} THEN <<>>
    ELSE LET first == CHOOSE i \in idx : \A j \in idx \ {i} :
                          \/ rows[i].order_index < rows[j].order_index
                          \/ rows[i].order_index = rows[j].order_index /\ i < j
         IN <<rows[first]>> \o OrderProjects(rows, idx \ {first})

get_all_projects(rows) == OrderProjects(rows, {i \in 1..Len(rows) : ~rows[i].deleted})

\* INSERT INTO projects
insert_project(rows, p) == Append(rows, p)

\* get_next_order_index without the + 1
get_next_order_index_reuses_max(rows) ==
    LET live == {i \in 1..Len(rows) : ~rows[i].deleted}
    IN IF live = {} THEN 1
       ELSE CHOOSE m \in {rows[i].order_index : i \in live} :
                \A i \in live : rows[i].order_index <= m

\* SELECT COALESCE(MAX(order_index), 0) + 1 FROM <table> WHERE deleted = 0
get_next_order_index(rows) ==
    LET live == {i \in 1..Len(rows) : ~rows[i].deleted}
    IN IF live = {} THEN 1
       ELSE (CHOOSE m \in {rows[i].order_index : i \in live} :
                \A i \in live : rows[i].order_index <= m) + 1

----------------------------------------------------------------------------
(* services/github_service.rs *)

\* A segment of a '/'-split string that has "github.com" as a substring.
\* str::contains("github.com") on the whole string holds exactly when one
\* of its segments has it, the pattern holding no '/'.
SegmentsWithGithubCom == {"github.com", "api.github.com"}

contains_github_com(url) == \E i \in 1..Len(url) : url[i] \in SegmentsWithGithubCom

\* extract_repo_from_url: the last two '/'-separated parts
extract_repo_from_url(url) ==
    IF Len(url) >= 2 THEN Some(<<url[Len(url) - 1], url[Len(url)]>>) ELSE None

\* extract_repo_from_html_url: parts[3]/parts[4] when parts[2] == "github.com"
\* (the code counts from 0, a sequence from 1)
extract_repo_from_html_url(url) ==
    IF Len(url) >= 5 /\ url[3] = "github.com" THEN Some(<<url[4], url[5]>>) ELSE None

\* GitHubIssue::repo_name
repo_name(issue) ==
    IF IsSome(issue.repository) THEN issue.repository[1]
    ELSE IF IsSome(issue.repository_url)
            /\ IsSome(extract_repo_from_url(issue.repository_url[1]))
         THEN extract_repo_from_url(issue.repository_url[1])[1]
    ELSE IF IsSome(extract_repo_from_html_url(issue.html_url))
         THEN extract_repo_from_html_url(issue.html_url)[1]
    ELSE <<"unknown">>

\* normalize_issue: repository.full_name is always populated
normalize_issue(issue) ==
    IF IsNone(issue.repository)
    THEN [issue EXCEPT !.repository = Some(repo_name(issue))]
    ELSE issue

\* What GitHub may answer.  Issue 1 carries its repository, pull request 2
\* only its repository_url, issue 3 lives on another host and names no
\* repository at all.
Url1 == <<"https:", "", "github.com", "o", "r", "issues", "1">>
Url2 == <<"https:", "", "github.com", "o", "r", "pull", "2">>
Url3 == <<"https:", "", "ghe.example", "o", "q", "issues", "3">>

RemoteIssue(id, url, state, title, repository, repository_url) ==
    [ id |-> id, number |-> id, title |-> title, html_url |-> url, state |-> state,
      body |-> Some("body"), repository |-> repository,
      repository_url |-> repository_url ]

\* GET /issues?filter=assigned, the pull requests filtered out
RemoteIssues ==
    { RemoteIssue(1, Url1, "open", "Fix bug", Some(<<"o", "r">>), None),
      RemoteIssue(1, Url1, "closed", "Fix bug", Some(<<"o", "r">>), None),
      RemoteIssue(3, Url3, "open", "Crash", None, None) }

\* GET /search/issues?q=... is:pr
RemotePulls ==
    { RemoteIssue(2, Url2, "open", "Add feature", None,
                  Some(<<"https:", "", "api.github.com", "repos", "o", "r">>)) }

\* The outcome of one of the three requests: the parsed, normalized items,
\* or the error of fetch_with_auth.
StreamOk(items) == [ok |-> TRUE, items |-> items]
StreamErr == [ok |-> FALSE, items |-> <<>>]

Normalized(items) == [i \in 1..Len(items) |-> normalize_issue(items[i])]

ItemSeqs(universe, n) == UNION {[1..k -> universe] : k \in 0..n}

StreamResults(universe) ==
    {StreamErr} \cup {StreamOk(Normalized(s)) : s \in ItemSeqs(universe, MaxItems)}

\* The three outcomes <<review-requested PRs, my open PRs, assigned issues>>
\* of one fetch_all, at most MaxItems items over the three.
StreamOutcomes ==
    {o \in StreamResults(RemotePulls) \X StreamResults(RemotePulls)
                \X StreamResults(RemoteIssues) :
            Len(o[1].items) + Len(o[2].items) + Len(o[3].items) <= MaxItems}

\* fetch_all with join! in place of try_join!, a failed request read as an
\* empty list
fetch_all_keeps_partial(review, my, issues) ==
    [ok |-> TRUE,
     data |-> [review_prs |-> review.items, my_prs |-> my.items,
               assigned_issues |-> issues.items]]

\* GitHubService::fetch_all: try_join! of the three requests
fetch_all(review, my, issues) ==
    IF review.ok /\ my.ok /\ issues.ok
    THEN [ok |-> TRUE,
          data |-> [review_prs |-> review.items, my_prs |-> my.items,
                    assigned_issues |-> issues.items]]
    ELSE [ok |-> FALSE, data |-> "HTTP error"]

----------------------------------------------------------------------------
(* app.rs: the store as App sees it, and the reconciliation *)

\* The store and its cache: S.db_tasks, S.db_projects, S.tasks, S.projects.
Store(dt, dp, t, pr) == [db_tasks |-> dt, db_projects |-> dp, tasks |-> t, projects |-> pr]

\* A storage call of one handler run: op names the call, k the remote item
\* (or the cached task of the closing scan) it is made for, 0 when there is
\* no such index.  The calls in the set fail of a handler run return Err.
Call(op, k) == [op |-> op, k |-> k]

\* App::load_data: each `?` leaves what was loaded before it
load_data(S, fail) ==
    IF Call("load_get_repo", 0) \in fail \/ Call("get_all_tasks", 0) \in fail THEN S
    ELSE LET S1 == [S EXCEPT !.tasks = get_all_tasks(S.db_tasks)]
         IN IF Call("get_all_projects", 0) \in fail THEN S1
            ELSE [S1 EXCEPT !.projects = get_all_projects(S.db_projects)]

\* sync_github_to_tasks, lines 604-614: the three streams flattened, each
\* item with its github_type
github_items(data) ==
    [i \in 1..Len(data.assigned_issues) |-> <<data.assigned_issues[i], "issue">>]
    \o [i \in 1..Len(data.my_prs) |-> <<data.my_prs[i], "my_pr">>]
    \o [i \in 1..Len(data.review_prs) |-> <<data.review_prs[i], "review">>]

\* lines 617-624: project name -> project id, a later project of the same
\* name replacing an earlier one (HashMap::insert)
repo_to_project_init(projs) ==
    [n \in {projs[i].name : i \in 1..Len(projs)} |->
        LET at == {i \in 1..Len(projs) : projs[i].name = n}
        IN projs[CHOOSE i \in at : \A j \in at : j <= i].id]

\* self.tasks.iter().find(|t| t.context_url == Some(url)): position of the
\* first cached task with that context_url, 0 when there is none
find_by_url(ts, url) ==
    LET at == {i \in 1..Len(ts) : ts[i].context_url = Some(url)}
    IN IF at = {} THEN 0 ELSE CHOOSE i \in at : \A j \in at : i <= j

github_kind(github_type) ==
    CASE github_type = "issue" -> Some("GhIssue")
      [] github_type = "my_pr" -> Some("GhPr")
      [] github_type = "review" -> Some("GhReview")
      [] OTHER -> None

\* matched_update that also takes over the title of the remote item
matched_update_refreshes_title(task, item, project_id, at) ==
    LET close == item.state = "closed" /\ task.status # "Completed"
        attach == IsNone(task.project_id) /\ IsSome(project_id)
        retitle == task.title # item.title
        t1 == IF close
              THEN [task EXCEPT !.status = "Completed", !.completed_at = Some(at)]
              ELSE task
        t2 == IF attach THEN [t1 EXCEPT !.project_id = project_id] ELSE t1
    IN [needs_update |-> close \/ attach \/ retitle,
        task |-> [t2 EXCEPT !.updated_at = at, !.title = item.title]]

\* lines 657-677: the matched task as rewritten, and whether it is written
matched_update(task, item, project_id, at) ==
    LET close == item.state = "closed" /\ task.status # "Completed"
        attach == IsNone(task.project_id) /\ IsSome(project_id)
        t1 == IF close
              THEN [task EXCEPT !.status = "Completed", !.completed_at = Some(at)]
              ELSE task
        t2 == IF attach THEN [t1 EXCEPT !.project_id = project_id] ELSE t1
    IN [needs_update |-> close \/ attach, task |-> [t2 EXCEPT !.updated_at = at]]

\* seeded_task that takes the status over from the state of the item
seeded_task_mirrors_state(id, item, github_type, project_id, order_index, at) ==
    [Task_new(id, item.title, at) EXCEPT
        !.context_url = Some(item.html_url),
        !.status = IF item.state = "closed" THEN "Completed" ELSE "Inbox",
        !.completed_at = IF item.state = "closed" THEN Some(at) ELSE None,
        !.project_id = project_id,
        !.notes = item.body,
        !.metadata = [github_id |-> item.id, github_type |-> github_type,
                      github_repo |-> repo_name(item)],
        !.kind = github_kind(github_type),
        !.order_index = order_index]

\* lines 679-700: the task created for an unmatched item
seeded_task(id, item, github_type, project_id, order_index, at) ==
    [Task_new(id, item.title, at) EXCEPT
        !.context_url = Some(item.html_url),
        !.status = "Inbox",
        !.project_id = project_id,
        !.notes = item.body,
        !.metadata = [github_id |-> item.id, github_type |-> github_type,
                      github_repo |-> repo_name(item)],
        !.kind = github_kind(github_type),
        !.order_index = order_index]

\* repo_to_project left without the project just created
repo_to_project_forgets(map, name, id) == map

\* line 645: repo_to_project.insert(repo_name, project_id)
repo_to_project_insert(map, name, id) ==
    [n \in DOMAIN map \cup {name} |-> IF n = name THEN id ELSE map[n]]

\* lines 629-702, one turn of the loop for item k.  acc holds the tables,
\* repo_to_project and seen_urls; cached is self.tasks, which the loop reads
\* and never refreshes.
sync_item(acc, cached, k, item, github_type, at, fail) ==
    LET name == repo_name(item)
        known == name \in DOMAIN acc.repo_to_project
        project ==
            [Project_new(Len(acc.db_projects) + 1, name, at) EXCEPT
                !.icon = Some("github"),
                !.order_index = IF Call("get_next_order_index_projects", k) \in fail
                                THEN 0 ELSE get_next_order_index(acc.db_projects)]
        inserted == ~known /\ Call("insert_project", k) \notin fail
        project_id ==
            IF known THEN Some(acc.repo_to_project[name])
            ELSE IF inserted THEN Some(project.id) ELSE None
        dbp == IF inserted THEN insert_project(acc.db_projects, project)
               ELSE acc.db_projects
        r2p == IF inserted
               THEN repo_to_project_insert(acc.repo_to_project, name, project.id)
               ELSE acc.repo_to_project
        pos == find_by_url(cached, item.html_url)
        upd == matched_update(cached[pos], item, project_id, at)
        task == seeded_task(Len(acc.db_tasks) + 1, item, github_type, project_id,
                    IF Call("get_next_order_index_tasks", k) \in fail
                    THEN 0 ELSE get_next_order_index(acc.db_tasks), at)
        dbt == IF pos # 0
               THEN IF upd.needs_update /\ Call("update_task", k) \notin fail
                    THEN update_task(acc.db_tasks, upd.task) ELSE acc.db_tasks
               ELSE IF Call("insert_task", k) \notin fail
                    THEN insert_task(acc.db_tasks, task) ELSE acc.db_tasks
    IN [db_tasks |-> dbt, db_projects |-> dbp, repo_to_project |-> r2p,
        seen_urls |-> acc.seen_urls \cup {item.html_url}]

\* The writes of the loop
WriteOps == {"insert_project", "update_task", "insert_task"}

\* sync_items with `?` on the writes: the first item with a failed write
\* ends the loop
RECURSIVE sync_items_stops_at_failure(_, _, _, _, _, _)
sync_items_stops_at_failure(acc, cached, items, k, at, fail) ==
    IF k > Len(items) \/ \E c \in fail : c.k = k /\ c.op \in WriteOps THEN acc
    ELSE sync_items_stops_at_failure(
            sync_item(acc, cached, k, items[k][1], items[k][2], at, fail),
            cached, items, k + 1, at, fail)

RECURSIVE sync_items(_, _, _, _, _, _)
sync_items(acc, cached, items, k, at, fail) ==
    IF k > Len(items) THEN acc
    ELSE sync_items(sync_item(acc, cached, k, items[k][1], items[k][2], at, fail),
                    cached, items, k + 1, at, fail)

\* closed_remotely without the test for "github.com"
closed_remotely_any_url(task, seen_urls) ==
    /\ IsSome(task.context_url)
    /\ task.context_url[1] \notin seen_urls
    /\ task.status # "Completed"

\* lines 705-718: is the cached task taken as closed on GitHub
closed_remotely(task, seen_urls) ==
    /\ IsSome(task.context_url)
    /\ contains_github_com(task.context_url[1])
    /\ task.context_url[1] \notin seen_urls
    /\ task.status # "Completed"

RECURSIVE close_unseen(_, _, _, _, _, _)
close_unseen(rows, cached, seen_urls, j, at, fail) ==
    IF j > Len(cached) THEN rows
    ELSE close_unseen(
            IF closed_remotely(cached[j], seen_urls) /\ Call("update_task_closed", j) \notin fail
            THEN update_task(rows, [cached[j] EXCEPT !.status = "Completed",
                                        !.completed_at = Some(at), !.updated_at = at])
            ELSE rows,
            cached, seen_urls, j + 1, at, fail)

\* App::sync_github_to_tasks
sync_github_to_tasks(S, data, at, fail) ==
    IF Call("get_repo", 0) \in fail THEN S
    ELSE LET acc == sync_items(
                        [db_tasks |-> S.db_tasks, db_projects |-> S.db_projects,
                         repo_to_project |-> repo_to_project_init(S.projects),
                         seen_urls |-> {}],
                        S.tasks, github_items(data), 1, at, fail)
             rows == close_unseen(acc.db_tasks, S.tasks, acc.seen_urls, 1, at, fail)
         IN load_data([S EXCEPT !.db_tasks = rows, !.db_projects = acc.db_projects], fail)

----------------------------------------------------------------------------
(* app.rs: the handlers *)

NoData == [review_prs |-> <<>>, my_prs |-> <<>>, assigned_issues |-> <<>>]

\* The record kept in last: the latest handler run that read or wrote the
\* store.  op names it, id the task it was asked to act on, data the
\* snapshot of its (final) reconciliation pass, fail the storage calls that
\* failed in that pass, passes the number of reconciliation passes it made.
Last(op, id, data, fail, passes) ==
    [op |-> op, id |-> id, data |-> data, fail |-> fail, passes |-> passes]

CurrentStore == Store(db_tasks, db_projects, tasks, projects)

SetStore(S) ==
    /\ db_tasks' = S.db_tasks
    /\ db_projects' = S.db_projects
    /\ tasks' = S.tasks
    /\ projects' = S.projects

\* The tasks selected_task() can return: none in the GitHub view, and in a
\* list view a task that is looked up again in self.tasks by its id before
\* anything is written.
CachedIds ==
    IF current_view = "GitHub" THEN {} ELSE {tasks[i].id : i \in 1..Len(tasks)}
Cached(id) == tasks[CHOOSE i \in 1..Len(tasks) : tasks[i].id = id]

\* toggled that reopens a task as Active
toggled_reopens_active(t, at) ==
    [(IF t.status = "Completed"
      THEN [t EXCEPT !.status = "Active", !.completed_at = None]
      ELSE [t EXCEPT !.status = "Completed", !.completed_at = Some(at)])
     EXCEPT !.updated_at = at]

\* toggle_task_completed, lines 349-358
toggled(t, at) ==
    [(IF t.status = "Completed"
      THEN [t EXCEPT !.status = "Inbox", !.completed_at = None]
      ELSE [t EXCEPT !.status = "Completed", !.completed_at = Some(at)])
     EXCEPT !.updated_at = at]

toggle_task_completed(id) ==
    /\ now < MaxClock
    /\ id \in CachedIds
    /\ now' = now + 1
    /\ SetStore(load_data([CurrentStore EXCEPT
            !.db_tasks = update_task(db_tasks, toggled(Cached(id), now'))], {}))
    /\ last' = Last("toggle_task_completed", id, NoData, {}, 0)
    /\ UNCHANGED <<chan, inflight, github_view, current_view, github_token, last_fetch, fetches,
                   failed>>

\* set_task_status, lines 381-389
with_status(t, status, at) ==
    [t EXCEPT !.status = status, !.updated_at = at,
              !.completed_at = IF status = "Completed" THEN Some(at) ELSE None]

\* events/handler.rs: the keys i, a, s
StatusKeys == {"Inbox", "Active", "Scheduled"}

set_task_status(id, status) ==
    /\ now < MaxClock
    /\ id \in CachedIds
    /\ now' = now + 1
    /\ SetStore(load_data([CurrentStore EXCEPT
            !.db_tasks = update_task(db_tasks, with_status(Cached(id), status, now'))], {}))
    /\ last' = Last("set_task_status", id, NoData, {}, 0)
    /\ UNCHANGED <<chan, inflight, github_view, current_view, github_token, last_fetch, fetches,
                   failed>>

\* What the task form can hold when it is saved: the text fields after
\* apply_inputs and the fields set by the cycle_* keys.
FormInputs ==
    { [title |-> "Write report", notes |-> Some("draft"), due_date |-> Some(2),
       priority |-> "High", kind |-> Some("Task"), size |-> Some("M")] }

FormStatuses == {"Inbox", "Completed", "Cancelled"}

\* save_task_form, lines 434-443: the task of a new form
form_new_task(id, form, status, order_index, at) ==
    [Task_new(id, form.title, at) EXCEPT
        !.notes = form.notes, !.due_date = form.due_date,
        !.priority = form.priority, !.status = status,
        !.kind = form.kind, !.size = form.size,
        !.order_index = order_index]

\* save_task_form, lines 450-458: the edited task
form_edited_task(t, form, status, at) ==
    [t EXCEPT
        !.title = form.title, !.notes = form.notes, !.due_date = form.due_date,
        !.priority = form.priority, !.status = status,
        !.kind = form.kind, !.size = form.size,
        !.updated_at = at]

\* save_task_form with a new form (is_new)
save_task_form_new(form, status) ==
    /\ now < MaxClock
    /\ Len(db_tasks) < MaxRows
    /\ now' = now + 1
    /\ SetStore(load_data([CurrentStore EXCEPT
            !.db_tasks = insert_task(db_tasks,
                form_new_task(Len(db_tasks) + 1, form, status,
                              get_next_order_index(db_tasks), now'))], {}))
    /\ last' = Last("save_task_form_new", Len(db_tasks) + 1, NoData, {}, 0)
    /\ UNCHANGED <<chan, inflight, github_view, current_view, github_token, last_fetch, fetches,
                   failed>>

\* save_task_form with the form of start_edit_task
save_task_form_edit(id, form, status) ==
    /\ now < MaxClock
    /\ id \in CachedIds
    /\ now' = now + 1
    /\ SetStore(load_data([CurrentStore EXCEPT
            !.db_tasks = update_task(db_tasks,
                form_edited_task(Cached(id), form, status, now'))], {}))
    /\ last' = Last("save_task_form_edit", id, NoData, {}, 0)
    /\ UNCHANGED <<chan, inflight, github_view, current_view, github_token, last_fetch, fetches,
                   failed>>

\* execute_confirm with a pending delete
execute_confirm(id) ==
    /\ now < MaxClock
    /\ id \in CachedIds
    /\ now' = now + 1
    /\ SetStore(load_data([CurrentStore EXCEPT
            !.db_tasks = delete_task(db_tasks, id, now')], {}))
    /\ last' = Last("execute_confirm", id, NoData, {}, 0)
    /\ UNCHANGED <<chan, inflight, github_view, current_view, github_token, last_fetch, fetches,
                   failed>>

\* submit_input at the prompt "Project name:", the value not empty
ProjectNames == {<<"o", "r">>}

submit_input(value) ==
    /\ now < MaxClock
    /\ Len(db_projects) < MaxRows
    /\ now' = now + 1
    /\ SetStore(load_data([CurrentStore EXCEPT
            !.db_projects = insert_project(db_projects,
                [Project_new(Len(db_projects) + 1, value, now') EXCEPT
                    !.order_index = get_next_order_index(db_projects)])], {}))
    /\ last' = Last("submit_input", 0, NoData, {}, 0)
    /\ UNCHANGED <<chan, inflight, github_view, current_view, github_token, last_fetch, fetches,
                   failed>>

\* GitHubView::set_loading / set_error / set_data
set_loading(view, loading) == [view EXCEPT !.loading = loading]
set_error(view, error) == [view EXCEPT !.error = Some(error), !.loading = FALSE]
set_data(view, data) == [view EXCEPT !.items = data, !.loading = FALSE, !.error = None]

\* fetch_github_data: does it get past the token checks and spawn the fetch
has_token == IsSome(github_token) /\ github_token[1] # ""

fetch_github_data ==
    IF has_token
    THEN /\ inflight < MaxInflight
         /\ fetches < MaxFetches
         /\ fetches' = fetches + 1
         /\ github_view' = set_loading(github_view, TRUE)
         /\ inflight' = inflight + 1
    ELSE /\ github_view' = set_error(github_view, "GitHub token not configured. Set it in Settings.")
         /\ inflight' = inflight
         /\ fetches' = fetches

\* switch_to_view: of the sidebar items only GitHub differs in what follows
\* (Toggl fetches from another service and never touches the store)
switch_to_view(item) ==
    /\ current_view' = item
    /\ IF item = "GitHub" THEN fetch_github_data
       ELSE UNCHANGED <<github_view, inflight, fetches>>
    /\ UNCHANGED <<db_tasks, db_projects, tasks, projects, chan, github_token, now, last,
                   last_fetch, failed>>

\* refresh_data
refresh_data ==
    /\ SetStore(load_data(CurrentStore, {}))
    /\ IF current_view = "GitHub" THEN fetch_github_data
       ELSE UNCHANGED <<github_view, inflight, fetches>>
    /\ UNCHANGED <<chan, current_view, github_token, now, last, last_fetch, failed>>

\* The task spawned by fetch_github_data: fetch_all, then tx.send
fetch_task ==
    /\ inflight > 0
    /\ Len(chan) < MaxChan
    /\ \E o \in StreamOutcomes :
        \* a snapshot is sent while the clock has an instant left for its pass
        /\ fetch_all(o[1], o[2], o[3]).ok => now < MaxClock
        /\ chan' = Append(chan, fetch_all(o[1], o[2], o[3]))
        /\ last_fetch' = IF o[1].ok /\ o[2].ok /\ o[3].ok THEN "complete" ELSE "failed"
    /\ inflight' = inflight - 1
    /\ UNCHANGED <<db_tasks, db_projects, tasks, projects, github_view, current_view,
                   github_token, now, last, fetches, failed>>
    /\ UNCHANGED service_vars

\* The storage calls one reconciliation pass can make, over a snapshot of
\* n items and a cache of m tasks
PassCalls(n, m) ==
    {Call(op, 0) : op \in {"get_repo", "load_get_repo", "get_all_tasks", "get_all_projects"}}
    \cup {Call(op, k) : op \in {"get_next_order_index_projects", "insert_project",
                                "update_task", "get_next_order_index_tasks",
                                "insert_task"},
                        k \in 1..n}
    \cup {Call("update_task_closed", j) : j \in 1..m}

\* The sets of at most n calls
RECURSIVE FailSets(_, _)
FailSets(calls, n) ==
    IF n = 0 THEN {{}}
    ELSE LET fewer == FailSets(calls, n - 1)
         IN fewer \cup {f \cup {c} : f \in fewer, c \in calls}

NumItems(data) == Len(data.review_prs) + Len(data.my_prs) + Len(data.assigned_issues)

\* For each message of msgs the calls that fail while it is handled, at most
\* budget of them in all
RECURSIVE FailPlans(_, _)
FailPlans(msgs, budget) ==
    IF msgs = <<>> THEN {<<>>}
    ELSE LET calls == IF Head(msgs).ok
                      THEN PassCalls(NumItems(Head(msgs).data), MaxRows) ELSE {}
         IN UNION {{<<f>> \o rest : rest \in FailPlans(Tail(msgs), budget - Cardinality(f))} :
                    f \in FailSets(calls, budget)}

NoFailPlan(msgs) == [i \in 1..Len(msgs) |-> {}]

RECURSIVE PlanSize(_)
PlanSize(plan) ==
    IF plan = <<>> THEN 0 ELSE Cardinality(Head(plan)) + PlanSize(Tail(plan))

\* handle_message with the error branch taken as an empty snapshot
handle_message_syncs_on_error(st, msg, fail) ==
    [S |-> sync_github_to_tasks(st.S, IF msg.ok THEN msg.data ELSE NoData, st.at + 1, fail),
     view |-> IF msg.ok THEN set_data(st.view, msg.data) ELSE set_error(st.view, msg.data),
     at |-> st.at + 1,
     last |-> Last("sync_github_to_tasks", 0, IF msg.ok THEN msg.data ELSE NoData, fail,
                   st.last.passes + 1)]

\* poll_async_messages, lines 727-735: one received GitHubDataReady.  st
\* holds the store S, the view, the clock and the record of the latest pass.
handle_message(st, msg, fail) ==
    IF msg.ok
    THEN [S |-> sync_github_to_tasks(st.S, msg.data, st.at + 1, fail),
          view |-> set_data(st.view, msg.data),
          at |-> st.at + 1,
          last |-> Last("sync_github_to_tasks", 0, msg.data, fail, st.last.passes + 1)]
    ELSE [st EXCEPT !.view = set_error(st.view, msg.data)]

\* poll_async_messages: while let Ok(msg) = self.async_rx.try_recv()
RECURSIVE drain(_, _, _)
drain(st, msgs, plan) ==
    IF msgs = <<>> THEN st
    ELSE drain(handle_message(st, Head(msgs), Head(plan)), Tail(msgs), Tail(plan))

\* A failure plan in which every failure is one the store shows: a call
\* the pass does not make cannot fail, and a failed call that leaves the
\* store as the plan without it does is the run of that smaller plan.
Effective(st, msgs, plan) ==
    \A i \in 1..Len(plan) : \A c \in plan[i] :
        drain(st, msgs, plan).S # drain(st, msgs, [plan EXCEPT ![i] = @ \ {c}]).S

poll_async_messages(plan) ==
    /\ chan # <<>>
    /\ now + Cardinality({i \in 1..Len(chan) : chan[i].ok}) <= MaxClock
    /\ Effective([S |-> CurrentStore, view |-> github_view, at |-> now,
                  last |-> Last("poll_async_messages", 0, NoData, {}, 0)], chan, plan)
    /\ LET st == drain([S |-> CurrentStore, view |-> github_view, at |-> now,
                        last |-> Last("poll_async_messages", 0, NoData, {}, 0)],
                       chan, plan)
       IN /\ st.at <= MaxClock
          /\ Len(st.S.db_tasks) <= MaxRows
          /\ Len(st.S.db_projects) <= MaxRows
          /\ SetStore(st.S)
          /\ github_view' = st.view
          /\ now' = st.at
          /\ last' = IF st.last.passes = 0 THEN last ELSE st.last
    /\ chan' = <<>>
    /\ failed' = failed + PlanSize(plan)
    /\ UNCHANGED <<inflight, current_view, github_token, fetches, last_fetch>>
    /\ UNCHANGED service_vars

----------------------------------------------------------------------------
(* services/filter_service.rs *)

\* A calendar date (NaiveDate) is a number of 1..MaxDate.
Dates == 1..MaxDate

\* A filter returns Vec<&Task>: the tasks it keeps, in the order of the
\* slice.  The tasks of a slice differ in their id.  is_some_and(|due| ..)
\* is IsSome and the test of the value.
filter_inbox(ts) ==
    SelectSeq(ts, LAMBDA t : t.status = "Inbox" /\ ~t.deleted)

filter_today_strict(ts, date) ==
    SelectSeq(ts, LAMBDA t :
        /\ ~t.deleted
        /\ t.status # "Completed"
        /\ IsSome(t.due_date) /\ t.due_date[1] < date)

\* date is the value of the clock read at line 14
filter_today(ts, date) ==
    SelectSeq(ts, LAMBDA t :
        /\ ~t.deleted
        /\ t.status # "Completed"
        /\ IsSome(t.due_date) /\ t.due_date[1] <= date)

\* date is the value of the clock read at line 27
filter_upcoming(ts, date) ==
    SelectSeq(ts, LAMBDA t :
        /\ ~t.deleted
        /\ t.status # "Completed"
        /\ IsSome(t.due_date) /\ t.due_date[1] > date)

filter_anytime_skips_cancelled(ts) ==
    SelectSeq(ts, LAMBDA t :
        /\ ~t.deleted
        /\ t.status \notin {"Completed", "Cancelled"}
        /\ IsNone(t.due_date))

filter_anytime(ts) ==
    SelectSeq(ts, LAMBDA t :
        /\ ~t.deleted
        /\ t.status # "Completed"
        /\ IsNone(t.due_date))

filter_completed_keeps_deleted(ts) ==
    SelectSeq(ts, LAMBDA t : t.status = "Completed")

filter_completed(ts) ==
    SelectSeq(ts, LAMBDA t : ~t.deleted /\ t.status = "Completed")

filter_review_inclusive(ts, date) ==
    SelectSeq(ts, LAMBDA t :
        /\ ~t.deleted
        /\ t.status # "Completed"
        /\ IsSome(t.due_date) /\ t.due_date[1] <= date)

\* date is the value of the clock read at line 84
filter_review(ts, date) ==
    SelectSeq(ts, LAMBDA t :
        /\ ~t.deleted
        /\ t.status # "Completed"
        /\ IsSome(t.due_date) /\ t.due_date[1] < date)

\* The closure given to sort_by, lines 112-119: an Ordering
compare_due_date(a, b) ==
    CASE IsSome(a.due_date) /\ IsSome(b.due_date) ->
            IF a.due_date[1] < b.due_date[1] THEN "Less"
            ELSE IF a.due_date[1] > b.due_date[1] THEN "Greater"
            ELSE "Equal"
      [] IsSome(a.due_date) /\ IsNone(b.due_date) -> "Less"
      [] IsNone(a.due_date) /\ IsSome(b.due_date) -> "Greater"
      [] OTHER ->
            IF a.order_index < b.order_index THEN "Less"
            ELSE IF a.order_index > b.order_index THEN "Greater"
            ELSE "Equal"

\* x put into the sorted s behind every element that is not greater
insert_sorted(s, x) ==
    LET greater == {i \in 1..Len(s) : compare_due_date(s[i], x) = "Greater"}
        k == IF greater = {} THEN Len(s) + 1 ELSE Nth(greater, 1)
    IN  SubSeq(s, 1, k - 1) \o <<x>> \o SubSeq(s, k, Len(s))

\* slice::sort_by is a stable sort: elements the closure calls Equal keep
\* the order they had
RECURSIVE sort_by_due_date(_)
sort_by_due_date(ts) ==
    IF ts = <<>> THEN <<>>
    ELSE insert_sorted(sort_by_due_date(SubSeq(ts, 1, Len(ts) - 1)), ts[Len(ts)])

\* The place of a key of BTreeMap<Option<NaiveDate>, _> in the order of the
\* map: None is less than every Some, and Some(a) < Some(b) when a < b
key_rank(k) == IF IsNone(k) THEN 0 ELSE k[1]

group_by_date_newest_first(ts) ==
    LET keys == {ts[i].due_date : i \in 1..Len(ts)}
        ranks == {key_rank(k) : k \in keys}
        key(n) == CHOOSE k \in keys : key_rank(k) = Nth(ranks, Cardinality(ranks) + 1 - n)
    IN  [n \in 1..Cardinality(keys) |->
            <<key(n), SelectSeq(ts, LAMBDA t : t.due_date = key(n))>>]

\* groups.entry(task.due_date).or_default().push(task) for the tasks in
\* their order, then the entries of the map in the order of their keys
group_by_date(ts) ==
    LET keys == {ts[i].due_date : i \in 1..Len(ts)}
        ranks == {key_rank(k) : k \in keys}
        key(n) == CHOOSE k \in keys : key_rank(k) = Nth(ranks, n)
    IN  [n \in 1..Cardinality(keys) |->
            <<key(n), SelectSeq(ts, LAMBDA t : t.due_date = key(n))>>]

----------------------------------------------------------------------------
(* ui/components/task_list.rs *)

\* A TaskListState: its tasks and list_state.selected(), an index from 0.
\* before is the selection the call found.
TaskListState(op, ts, selected, before) ==
    [op |-> op, tasks |-> ts, selected |-> selected, before |-> before]

TaskListState_new == TaskListState("new", <<>>, None, None)

\* set_tasks that leaves the selection as it is
set_tasks_keeps_selection(list_state, ts) ==
    TaskListState("set_tasks", ts, list_state.selected, list_state.selected)

set_tasks(list_state, ts) ==
    TaskListState("set_tasks", ts,
        IF IsSome(list_state.selected)
        THEN IF list_state.selected[1] >= Len(ts)
             THEN IF ts = <<>> THEN None ELSE Some(Len(ts) - 1)
             ELSE list_state.selected
        ELSE IF ts # <<>> THEN Some(0) ELSE None,
        list_state.selected)

\* self.tasks.get(i): tasks[i + 1] here, sequences counting from 1
selected_task(list_state) ==
    IF IsSome(list_state.selected) /\ list_state.selected[1] < Len(list_state.tasks)
    THEN Some(list_state.tasks[list_state.selected[1] + 1])
    ELSE None

select_next(list_state) ==
    IF list_state.tasks = <<>>
    THEN [list_state EXCEPT !.op = "select_next", !.before = list_state.selected]
    ELSE TaskListState("select_next", list_state.tasks,
            IF IsSome(list_state.selected)
            THEN IF list_state.selected[1] >= Len(list_state.tasks) - 1
                 THEN Some(0) ELSE Some(list_state.selected[1] + 1)
            ELSE Some(0),
            list_state.selected)

select_previous(list_state) ==
    IF list_state.tasks = <<>>
    THEN [list_state EXCEPT !.op = "select_previous", !.before = list_state.selected]
    ELSE TaskListState("select_previous", list_state.tasks,
            IF IsSome(list_state.selected)
            THEN IF list_state.selected[1] = 0
                 THEN Some(Len(list_state.tasks) - 1) ELSE Some(list_state.selected[1] - 1)
            ELSE Some(0),
            list_state.selected)

select_first(list_state) ==
    TaskListState("select_first", list_state.tasks,
        IF list_state.tasks # <<>> THEN Some(0) ELSE list_state.selected,
        list_state.selected)

select_last(list_state) ==
    TaskListState("select_last", list_state.tasks,
        IF list_state.tasks # <<>> THEN Some(Len(list_state.tasks) - 1)
        ELSE list_state.selected,
        list_state.selected)

----------------------------------------------------------------------------
(* The specifications *)

\* App::new: an empty database, the configuration as loaded
Init ==
    /\ db_tasks = <<>>
    /\ db_projects = <<>>
    /\ tasks = <<>>
    /\ projects = <<>>
    /\ chan = <<>>
    /\ inflight = 0
    /\ github_view = [loading |-> FALSE, error |-> None, items |-> NoData]
    /\ current_view = "Inbox"
    /\ github_token \in {None, Some(""), Some("token")}
    /\ now = 0
    /\ last = Last("new", 0, NoData, {}, 0)
    /\ last_fetch = "none"
    /\ fetches = 0
    /\ failed = 0
    /\ today = 1
    /\ result = [op |-> "none"]

KeyHandler ==
    \/ \E id \in 1..MaxRows : toggle_task_completed(id)
    \/ \E id \in 1..MaxRows, status \in StatusKeys : set_task_status(id, status)
    \/ \E form \in FormInputs, status \in FormStatuses : save_task_form_new(form, status)
    \/ \E id \in 1..MaxRows, form \in FormInputs, status \in FormStatuses :
            save_task_form_edit(id, form, status)
    \/ \E id \in 1..MaxRows : execute_confirm(id)
    \/ \E value \in ProjectNames : submit_input(value)
    \/ \E item \in {"Inbox", "GitHub"} : switch_to_view(item)
    \/ refresh_data

\* run_app, main.rs lines 73-94: each turn of the loop polls the channel
\* and then handles at most one key.  Nothing but the poll reads the
\* channel, so a message sent while a key is handled is received in the
\* state the handler leaves, exactly as a message sent after the handler
\* has returned: the send of fetch_task is placed there, and a key handler
\* runs only when no message waits.
KeyNext ==
    /\ chan = <<>>
    /\ KeyHandler
    /\ UNCHANGED service_vars

UserNext ==
    \/ KeyNext
    \/ fetch_task

\* Storage that never fails
Next ==
    \/ UserNext
    \/ poll_async_messages(NoFailPlan(chan))

Spec == Init /\ [][Next]_vars

\* The keys that act on the tasks reconciliation has made and on the
\* projects: every key of KeyHandler but the form of a new task, whose task
\* has no context_url
KeyHandlerEdit ==
    \/ \E id \in 1..MaxRows : toggle_task_completed(id)
    \/ \E id \in 1..MaxRows, status \in StatusKeys : set_task_status(id, status)
    \/ \E id \in 1..MaxRows, form \in FormInputs, status \in FormStatuses :
            save_task_form_edit(id, form, status)
    \/ \E id \in 1..MaxRows : execute_confirm(id)
    \/ \E value \in ProjectNames : submit_input(value)
    \/ \E item \in {"Inbox", "GitHub"} : switch_to_view(item)
    \/ refresh_data

\* Storage in which insert_project may fail and no other call does: the
\* failure that leaves a task of reconciliation without a project
NextInsertProjectFail ==
    \/ chan = <<>> /\ KeyHandlerEdit /\ UNCHANGED service_vars
    \/ fetch_task
    \/ \E plan \in FailPlans(chan, MaxFail - failed) :
            /\ \A i \in 1..Len(plan) : \A c \in plan[i] : c.op = "insert_project"
            /\ poll_async_messages(plan)

SpecInsertProjectFail == Init /\ [][NextInsertProjectFail]_vars

\* Storage calls of a reconciliation pass may fail.  Of the keys, the ones
\* that move between the views and the ones that complete, reopen and
\* delete the tasks reconciliation has created.
KeyHandlerFail ==
    \/ \E id \in 1..MaxRows : toggle_task_completed(id)
    \/ \E id \in 1..MaxRows : execute_confirm(id)
    \/ \E item \in {"Inbox", "GitHub"} : switch_to_view(item)
    \/ refresh_data

NextFail ==
    \/ chan = <<>> /\ KeyHandlerFail /\ UNCHANGED service_vars
    \/ fetch_task
    \/ \E plan \in FailPlans(chan, MaxFail - failed) : poll_async_messages(plan)

SpecFail == Init /\ [][NextFail]_vars

\* The store after a first reconciliation pass, over one open issue, whose
\* insert_project failed: the task of the issue has no project.  From
\* there on fetches, polls in which the reload of the tasks may fail, and
\* the keys that start a fetch.  fetches and failed count from this state.
FirstSnapshot ==
    [ assigned_issues |-> <<RemoteIssue(1, Url1, "open", "Fix bug", Some(<<"o", "r">>), None)>>,
      my_prs |-> <<>>, review_prs |-> <<>> ]

AfterFirstPass ==
    sync_github_to_tasks(Store(<<>>, <<>>, <<>>, <<>>), FirstSnapshot, 1,
                         {Call("insert_project", 1)})

InitStaleCache ==
    /\ db_tasks = AfterFirstPass.db_tasks
    /\ db_projects = AfterFirstPass.db_projects
    /\ tasks = AfterFirstPass.tasks
    /\ projects = AfterFirstPass.projects
    /\ chan = <<>>
    /\ inflight = 0
    /\ github_view = [loading |-> FALSE, error |-> None, items |-> FirstSnapshot]
    /\ current_view = "GitHub"
    /\ github_token = Some("token")
    /\ now = 1
    /\ last = Last("sync_github_to_tasks", 0, FirstSnapshot, {Call("insert_project", 1)}, 1)
    /\ last_fetch = "complete"
    /\ fetches = 0
    /\ failed = 0
    /\ today = 1
    /\ result = [op |-> "none"]

NextStaleCache ==
    \/ chan = <<>> /\ refresh_data /\ UNCHANGED service_vars
    \/ fetch_task
    \/ \E plan \in FailPlans(chan, MaxFail - failed) :
            /\ \A i \in 1..Len(plan) : \A c \in plan[i] : c.op = "get_all_tasks"
            /\ poll_async_messages(plan)

SpecStaleCache == InitStaleCache /\ [][NextStaleCache]_vars

\* The calls into services/filter_service.rs taken on their own.  The task
\* list is any list of at most MaxLen tasks: the tasks differ in their id
\* and otherwise in the fields the service reads.
TaskShapes ==
    [ due_date : {None} \cup {Some(d) : d \in Dates},
      status : TaskStatus,
      deleted : BOOLEAN,
      order_index : 1..2 ]

TaskOfShape(id, shape) ==
    [Task_new(id, <<"t">>, 0) EXCEPT
        !.due_date = shape.due_date,
        !.status = shape.status,
        !.deleted = shape.deleted,
        !.order_index = shape.order_index]

TaskLists ==
    UNION {{[i \in 1..n |-> TaskOfShape(i, f[i])] : f \in [1..n -> TaskShapes]} :
            n \in 0..MaxLen}

InitFilter ==
    /\ db_tasks = <<>>
    /\ db_projects = <<>>
    /\ tasks \in TaskLists
    /\ projects = <<>>
    /\ chan = <<>>
    /\ inflight = 0
    /\ github_view = [loading |-> FALSE, error |-> None, items |-> NoData]
    /\ current_view = "Inbox"
    /\ github_token = None
    /\ now = 0
    /\ last = Last("new", 0, NoData, {}, 0)
    /\ last_fetch = "none"
    /\ fetches = 0
    /\ failed = 0
    /\ today \in Dates
    /\ result = [op |-> "none"]

app_vars == <<db_tasks, db_projects, tasks, projects, chan, inflight, github_view,
              current_view, github_token, now, last, last_fetch, fetches, failed>>

\* Midnight passes
next_day ==
    /\ today < MaxDate
    /\ today' = today + 1
    /\ UNCHANGED <<result, app_vars>>

\* App::update_sidebar_counts: the six filters over self.tasks, one after
\* the other.  filter_today, filter_upcoming and filter_review read the
\* clock, each for itself: d1, d2 and d3 are the dates they read.  A count
\* of the sidebar is the length of the list recorded here.
update_sidebar_counts ==
    /\ \E d1, d2, d3 \in Dates :
        /\ today <= d1 /\ d1 <= d2 /\ d2 <= d3
        /\ result' = [ op |-> "update_sidebar_counts",
                       dates |-> <<d1, d2, d3>>,
                       inbox |-> filter_inbox(tasks),
                       today |-> filter_today(tasks, d1),
                       upcoming |-> filter_upcoming(tasks, d2),
                       anytime |-> filter_anytime(tasks),
                       completed |-> filter_completed(tasks),
                       review |-> filter_review(tasks, d3) ]
        /\ today' = d3
    /\ UNCHANGED app_vars

call_sort_by_due_date ==
    /\ result' = [op |-> "sort_by_due_date", out |-> sort_by_due_date(tasks)]
    /\ UNCHANGED <<today, app_vars>>

call_group_by_date ==
    /\ result' = [op |-> "group_by_date", out |-> group_by_date(tasks)]
    /\ UNCHANGED <<today, app_vars>>

NextFilter ==
    \/ next_day
    \/ update_sidebar_counts
    \/ call_sort_by_due_date
    \/ call_group_by_date

SpecFilter == InitFilter /\ [][NextFilter]_vars

\* GitHubIssue::repo_name taken on its own, over the items a response may
\* hold: with and without the repository object, with a repository_url
\* and an html_url that have or do not have the form GitHub documents.
ApiUrls ==
    { <<"https:", "", "api.github.com", "repos", "o", "r">>,
      <<"https:", "", "api.github.com", "repos", "o", "r", "">>,
      <<"https:", "", "api.github.com">>,
      <<"repos", "">>,
      <<"garbage">>,
      <<"">> }

HtmlUrls ==
    { Url1, Url3,
      <<"https:", "", "github.com", "o">>,
      <<"garbage">> }

ResponseItems ==
    { RemoteIssue(1, url, state, "Fix bug", repository, repository_url) :
        url \in HtmlUrls,
        state \in {"open", "closed"},
        repository \in {None, Some(<<"o", "r">>), Some(<<"p", "q">>)},
        repository_url \in {None} \cup {Some(u) : u \in ApiUrls} }

call_repo_name ==
    /\ \E issue \in ResponseItems :
            result' = [op |-> "repo_name", issue |-> issue, out |-> repo_name(issue)]
    /\ UNCHANGED <<today, app_vars>>

NextRepoName == call_repo_name

SpecRepoName == Init /\ [][NextRepoName]_vars

\* A TaskListState taken on its own: the list of a view, given new tasks
\* by update_tasks at every reload and moved in by the keys.  A task is its
\* id; the lists are those of at most MaxListLen different tasks.
TaskIdLists ==
    UNION {{f \in [1..n -> 1..MaxListLen] : \A i, j \in 1..n : i # j => f[i] # f[j]} :
            n \in 0..MaxListLen}

InitTaskList ==
    /\ db_tasks = <<>>
    /\ db_projects = <<>>
    /\ tasks = <<>>
    /\ projects = <<>>
    /\ chan = <<>>
    /\ inflight = 0
    /\ github_view = [loading |-> FALSE, error |-> None, items |-> NoData]
    /\ current_view = "Inbox"
    /\ github_token = None
    /\ now = 0
    /\ last = Last("new", 0, NoData, {}, 0)
    /\ last_fetch = "none"
    /\ fetches = 0
    /\ failed = 0
    /\ today = 1
    /\ result = TaskListState_new

call_set_tasks ==
    /\ \E ts \in TaskIdLists : result' = set_tasks(result, ts)
    /\ UNCHANGED <<today, app_vars>>

call_select_next ==
    /\ result' = select_next(result)
    /\ UNCHANGED <<today, app_vars>>

call_select_previous ==
    /\ result' = select_previous(result)
    /\ UNCHANGED <<today, app_vars>>

call_select_first ==
    /\ result' = select_first(result)
    /\ UNCHANGED <<today, app_vars>>

call_select_last ==
    /\ result' = select_last(result)
    /\ UNCHANGED <<today, app_vars>>

NextTaskList ==
    \/ call_set_tasks
    \/ call_select_next
    \/ call_select_previous
    \/ call_select_first
    \/ call_select_last

SpecTaskList == InitTaskList /\ [][NextTaskList]_vars

----------------------------------------------------------------------------
(* The properties *)

Live(rows) == {i \in 1..Len(rows) : ~rows[i].deleted}

\* The canonical URLs of a snapshot
SnapshotUrls(data) == {github_items(data)[k][1].html_url : k \in 1..NumItems(data)}

\* The live rows whose context_url is url
RowsOfUrl(rows, url) == {i \in Live(rows) : rows[i].context_url = Some(url)}

\* A step of poll_async_messages that receives one message, a snapshot:
\* one reconciliation pass, over chan[1].data, at the instant now'
OnePass == Len(chan) = 1 /\ chan[1].ok /\ chan' = <<>>

\* A step of poll_async_messages that receives one message, an error
OneError == Len(chan) = 1 /\ ~chan[1].ok /\ chan' = <<>>

\* The state is the one a reconciliation pass has left: nothing has
\* touched the store since
AfterPass == last.op = "sync_github_to_tasks"

\* C1: a reconciliation pass over the snapshot the pass before it has
\* handled, nothing having touched the store in between and no storage call
\* having failed, inserts and updates nothing: both tables stay as they are.
C1_SecondPassWritesNothing ==
    [][(OnePass /\ AfterPass /\ last.fail = {} /\ chan[1].data = last.data)
        => (db_tasks' = db_tasks /\ db_projects' = db_projects)]_vars

\* C2: receiving the error of a failed fetch runs no reconciliation pass:
\* it sets the error of the GitHub view, clears its loading flag, keeps the
\* items of the snapshot received before, and leaves both tables, both
\* caches and the clock as they are.
C2_FailedFetchLeavesStore ==
    [][OneError
        => /\ db_tasks' = db_tasks /\ db_projects' = db_projects
           /\ tasks' = tasks /\ projects' = projects
           /\ github_view'.items = github_view.items
           /\ github_view'.error = Some(chan[1].data)
           /\ github_view'.loading = FALSE
           /\ last' = last /\ now' = now]_vars

\* An error has been received while the store held tasks and the view the
\* snapshot they came from
C2_Witness ==
    /\ github_view.error = Some("HTTP error")
    /\ github_view.items # NoData
    /\ Len(db_tasks) > 0
    /\ chan = <<>>

\* C3: after a reconciliation pass no two live tasks carry the canonical
\* URL of one item of its snapshot.
C3_OneTaskPerUrl ==
    AfterPass =>
        \A url \in SnapshotUrls(last.data) : Cardinality(RowsOfUrl(db_tasks, url)) <= 1

\* C4: a reconciliation pass completes every live task that reconciliation
\* has created, that is not Completed and whose canonical URL no item of
\* the snapshot carries: its row has the status completed, and completed_at
\* and updated_at at the instant of the pass.
C4_UnseenTaskIsClosed ==
    [][OnePass =>
        \A i \in 1..Len(tasks) :
            (/\ tasks[i].metadata # <<>>
             /\ tasks[i].status # "Completed"
             /\ IsSome(tasks[i].context_url)
             /\ tasks[i].context_url[1] \notin SnapshotUrls(chan[1].data))
            => \E j \in 1..Len(db_tasks') :
                    /\ db_tasks'[j].id = tasks[i].id
                    /\ db_tasks'[j].status = "completed"
                    /\ db_tasks'[j].completed_at = Some(now')
                    /\ db_tasks'[j].updated_at = now']_vars

\* C5: every row of the tasks table has the status completed exactly when
\* its completed_at is set.
C5_CompletedIffCompletedAt ==
    \A i \in 1..Len(db_tasks) :
        (db_tasks[i].status = "completed") <=> IsSome(db_tasks[i].completed_at)

\* C6: a fetch_all in which a request has failed sends an error and no
\* snapshot, and receiving it writes no row: no task is completed for
\* being absent from the requests that did succeed.
C6_PartialFailureClosesNothing ==
    [][/\ (chan' # chan /\ chan' # <<>> /\ last_fetch' = "failed")
            => ~chan'[Len(chan')].ok
       /\ (Len(chan) = 1 /\ chan' = <<>> /\ last_fetch = "failed")
            => (db_tasks' = db_tasks /\ tasks' = tasks)]_vars

\* The message of a fetch_all with a failed request has been received
\* while a task made from a github.com item was live and not completed
C6_Witness ==
    /\ last_fetch = "failed"
    /\ chan = <<>>
    /\ inflight = 0
    /\ \E i \in Live(db_tasks) :
            /\ IsSome(db_tasks[i].context_url)
            /\ contains_github_com(db_tasks[i].context_url[1])
            /\ db_tasks[i].status # "completed"

\* The live projects called name
ProjectsNamed(rows, name) == {i \in Live(rows) : rows[i].name = name}

\* The container names of a snapshot
SnapshotRepos(data) == {repo_name(github_items(data)[k][1]) : k \in 1..NumItems(data)}

\* C7: in a reconciliation pass with reliable storage, a container name of
\* the snapshot that no live project carries gets exactly one new project,
\* a name that live projects carry gets none, no other project is created,
\* and every task the pass creates belongs to a live project that carries
\* the container name of its item, two tasks of one container to the same.
C7_OneProjectPerContainer ==
    [][OnePass =>
        LET repos == SnapshotRepos(chan[1].data)
            created == (Len(db_tasks) + 1)..Len(db_tasks')
        IN /\ \A name \in repos :
                Cardinality(ProjectsNamed(db_projects', name)) =
                    IF ProjectsNamed(db_projects, name) = {} THEN 1
                    ELSE Cardinality(ProjectsNamed(db_projects, name))
           /\ Len(db_projects') = Len(db_projects)
                + Cardinality({name \in repos : ProjectsNamed(db_projects, name) = {}})
           /\ \A j \in created :
                \E p \in ProjectsNamed(db_projects', db_tasks'[j].metadata[1].github_repo) :
                    db_tasks'[j].project_id = Some(db_projects'[p].id)
           /\ \A i, j \in created :
                db_tasks'[i].metadata[1].github_repo = db_tasks'[j].metadata[1].github_repo
                    => db_tasks'[i].project_id = db_tasks'[j].project_id]_vars

\* A pass over two items of one container has created one project and the
\* two tasks in it
C7_Witness ==
    /\ AfterPass
    /\ NumItems(last.data) = 2
    /\ Cardinality(SnapshotRepos(last.data)) = 1
    /\ Len(db_projects) = 1
    /\ db_projects[1].icon = Some("github")
    /\ db_projects[1].created_at = now
    /\ Cardinality({i \in Live(db_tasks) :
            db_tasks[i].project_id = Some(1) /\ db_tasks[i].created_at = now}) = 2

\* C8: whatever storage calls fail during the reconciliation passes, no two
\* live tasks created at different instants carry the same context_url,
\* and no two live projects made by reconciliation carry the same name.
\* (Two tasks that one pass creates for a URL its snapshot repeats are the
\* subject of C3; they are created at one instant and set aside here, so
\* that what is stated is what storage failures add.)
C8_NoDuplicatesUnderFailures ==
    /\ \A i, j \in Live(db_tasks) :
            (/\ i # j
             /\ IsSome(db_tasks[i].context_url)
             /\ db_tasks[i].context_url = db_tasks[j].context_url)
            => db_tasks[i].created_at = db_tasks[j].created_at
    /\ \A i, j \in Live(db_projects) :
            (/\ i # j
             /\ db_projects[i].icon = Some("github")
             /\ db_projects[j].icon = Some("github"))
            => db_projects[i].name # db_projects[j].name

\* C9: in a reconciliation pass in which writes made for items fail and
\* nothing else does, every item without a failed write is processed (its
\* task created when the cache holds none for its URL, completed when the
\* item is closed, the only one of its URL, and the cached task not
\* Completed), the closing scan
\* completes every cached task it takes as closed, both caches are
\* reloaded, and the handler goes on to hand the snapshot to the view.
C9_FailedWriteDoesNotAbort ==
    [][(OnePass /\ last'.fail # {} /\ \A c \in last'.fail : c.op \in WriteOps) =>
        LET data == chan[1].data
            items == github_items(data)
            spared == {k \in 1..Len(items) : \A c \in last'.fail : c.k # k}
            Completed(id) ==
                \E j \in 1..Len(db_tasks') :
                    /\ db_tasks'[j].id = id
                    /\ db_tasks'[j].status = "completed"
                    /\ db_tasks'[j].completed_at = Some(now')
        IN /\ \A k \in spared :
                LET item == items[k][1]
                    pos == find_by_url(tasks, item.html_url)
                IN IF pos = 0
                   THEN \E j \in (Len(db_tasks) + 1)..Len(db_tasks') :
                            /\ db_tasks'[j].context_url = Some(item.html_url)
                            /\ db_tasks'[j].created_at = now'
                   ELSE (/\ item.state = "closed"
                         /\ tasks[pos].status # "Completed"
                         /\ \A l \in 1..Len(items) :
                                items[l][1].html_url = item.html_url => l = k)
                            => Completed(tasks[pos].id)
           /\ \A i \in 1..Len(tasks) :
                closed_remotely(tasks[i], SnapshotUrls(data)) => Completed(tasks[i].id)
           /\ tasks' = get_all_tasks(db_tasks')
           /\ projects' = get_all_projects(db_projects')
           /\ github_view' = set_data(github_view, data)]_vars

\* The insert of the first of two items has failed and the second item
\* has its task
C9_Witness ==
    /\ AfterPass
    /\ last.fail = {Call("insert_task", 1)}
    /\ NumItems(last.data) = 2
    /\ RowsOfUrl(db_tasks, github_items(last.data)[1][1].html_url) = {}
    /\ \E j \in RowsOfUrl(db_tasks, github_items(last.data)[2][1].html_url) :
            db_tasks[j].created_at = now
    /\ tasks = get_all_tasks(db_tasks)

\* C10: in a reconciliation pass (insert_project may fail, no other storage
\* call does), the row of a live
\* task whose context_url an item of the snapshot carries keeps every
\* column but status, completed_at, project_id and updated_at; it keeps a
\* project_id that is set; status and completed_at change only to
\* completed, at the instant of the pass, when an item of that URL is
\* closed and the status was not completed; and the row is not written at
\* all when no such item is closed (or the task is completed already) and
\* its project_id is set.
C10_MatchedTaskFrame ==
    [][OnePass =>
        \A j \in Live(db_tasks) :
            LET old == db_tasks[j]
                new == db_tasks'[j]
                items == github_items(chan[1].data)
                closing == /\ old.status # "completed"
                           /\ \E k \in 1..Len(items) :
                                /\ Some(items[k][1].html_url) = old.context_url
                                /\ items[k][1].state = "closed"
            IN (IsSome(old.context_url)
                    /\ old.context_url[1] \in SnapshotUrls(chan[1].data))
               => /\ [new EXCEPT !.status = old.status, !.completed_at = old.completed_at,
                                 !.project_id = old.project_id,
                                 !.updated_at = old.updated_at] = old
                  /\ IsSome(old.project_id) => new.project_id = old.project_id
                  /\ (new.status # old.status \/ new.completed_at # old.completed_at)
                        => (closing /\ new.status = "completed"
                                    /\ new.completed_at = Some(now'))
                  /\ (~closing /\ IsSome(old.project_id)) => new = old
                  /\ new.updated_at \in {old.updated_at, now'}]_vars

\* A task that reconciliation has made without a project, edited in the
\* form since, has been given its project by a pass whose snapshot carries
\* its URL: it has the title of the form and the project made in that pass
C10_Witness ==
    /\ AfterPass
    /\ \E j \in Live(db_tasks) : \E p \in Live(db_projects) :
            /\ IsSome(db_tasks[j].context_url)
            /\ db_tasks[j].context_url[1] \in SnapshotUrls(last.data)
            /\ db_tasks[j].title = "Write report"
            /\ db_tasks[j].created_at < now
            /\ db_tasks[j].updated_at = now
            /\ db_tasks[j].project_id = Some(db_projects[p].id)
            /\ db_projects[p].created_at = now

\* C11: a reconciliation pass inserts no task for a canonical URL of its
\* snapshot that a soft-deleted row made by reconciliation carries: the
\* rows of that URL, the deleted ones counted, stay as many as they were.
C11_DeletedTaskNotRecreated ==
    [][OnePass =>
        \A url \in SnapshotUrls(chan[1].data) :
            (\E i \in 1..Len(db_tasks) :
                /\ db_tasks[i].deleted
                /\ IsSome(db_tasks[i].metadata)
                /\ db_tasks[i].context_url = Some(url))
            => Cardinality({j \in 1..Len(db_tasks') : db_tasks'[j].context_url = Some(url)})
                = Cardinality({j \in 1..Len(db_tasks) : db_tasks[j].context_url = Some(url)})]_vars

\* C12: at most one fetch that fetch_github_data has started has not yet
\* sent its message: no fetch is started while another is under way.
C12_OneFetchOutstanding == inflight <= 1

\* The greatest order_index of the live rows among the first n, 0 without one
MaxOrderIndex(rows, n) ==
    LET live == {i \in 1..n : ~rows[i].deleted}
    IN IF live = {} THEN 0
       ELSE CHOOSE m \in {rows[i].order_index : i \in live} :
                \A i \in live : rows[i].order_index <= m

\* C13: a reconciliation pass with reliable storage inserts one row for
\* each item whose URL no cached task carries, in the order of the items,
\* and nothing else; the row of an item has its title, its body as notes,
\* its URL as context_url, the status inbox, no completed_at, a live
\* project named as the item's container, the kind of the item's stream,
\* the metadata github_id, github_type and github_repo, and the order_index
\* that follows the greatest one of the live rows before it.
C13_SeededTask ==
    [][OnePass =>
        LET items == github_items(chan[1].data)
            unmatched == {k \in 1..Len(items) : find_by_url(tasks, items[k][1].html_url) = 0}
        IN /\ Len(db_tasks') = Len(db_tasks) + Cardinality(unmatched)
           /\ \A i \in 1..Cardinality(unmatched) :
                LET item == items[Nth(unmatched, i)][1]
                    stream == items[Nth(unmatched, i)][2]
                    j == Len(db_tasks) + i
                    row == db_tasks'[j]
                IN /\ row.title = item.title
                   /\ row.notes = item.body
                   /\ row.context_url = Some(item.html_url)
                   /\ row.status = "inbox"
                   /\ row.completed_at = None
                   /\ ~row.deleted
                   /\ row.created_at = now' /\ row.updated_at = now'
                   /\ \E p \in ProjectsNamed(db_projects', repo_name(item)) :
                        row.project_id = Some(db_projects'[p].id)
                   /\ row.kind = Some(CASE stream = "issue" -> "gh:issue"
                                        [] stream = "my_pr" -> "gh:pr"
                                        [] stream = "review" -> "gh:review")
                   /\ row.metadata = Some([github_id |-> item.id, github_type |-> stream,
                                           github_repo |-> repo_name(item)])
                   /\ row.order_index = MaxOrderIndex(db_tasks', j - 1) + 1]_vars

\* A pass has made the second live task of the store from a closed issue:
\* it is in the Inbox, with the second order_index
C13_Witness ==
    /\ AfterPass
    /\ \E k \in 1..NumItems(last.data) : \E j \in Live(db_tasks) :
            /\ github_items(last.data)[k][1].state = "closed"
            /\ db_tasks[j].context_url = Some(github_items(last.data)[k][1].html_url)
            /\ db_tasks[j].created_at = now
            /\ db_tasks[j].status = "inbox"
            /\ db_tasks[j].kind = Some("gh:issue")
            /\ db_tasks[j].order_index = 2

\* The task t is one of the tasks of the bucket b
InBucket(b, t) == \E k \in 1..Len(b) : b[k].id = t.id

\* A task with a due date that is neither deleted nor Completed
DatedOpen(t) == ~t.deleted /\ t.status # "Completed" /\ IsSome(t.due_date)

\* The latest call computed the buckets of the sidebar
Classified == result.op = "update_sidebar_counts"

\* C14: when Today and Upcoming are computed for one current date, no task
\* is in both of them, and a task that has a due date, is not deleted and
\* is not Completed is in exactly one of them: in Today when its due date
\* is the current date or earlier (a task due on the current date is in
\* Today and not in Upcoming), in Upcoming when its due date is later.
C14_TodayUpcomingSplit ==
    (Classified /\ result.dates[1] = result.dates[2]) =>
        \A i \in 1..Len(tasks) :
            LET t == tasks[i]
                date == result.dates[1]
                in_today == InBucket(result.today, t)
                in_upcoming == InBucket(result.upcoming, t)
            IN  /\ ~(in_today /\ in_upcoming)
                /\ DatedOpen(t) =>
                    /\ in_today <=> ~in_upcoming
                    /\ in_today <=> t.due_date[1] <= date
                    /\ in_upcoming <=> t.due_date[1] > date
                /\ (DatedOpen(t) /\ t.due_date = Some(date)) => in_today /\ ~in_upcoming
                /\ ~DatedOpen(t) => ~in_today /\ ~in_upcoming

C14_Witness ==
    /\ Classified
    /\ result.dates[1] = result.dates[2]
    /\ Len(tasks) = 2
    /\ ~tasks[1].deleted /\ ~tasks[2].deleted
    /\ tasks[1].due_date = Some(result.dates[1])
    /\ tasks[2].due_date = Some(result.dates[1] + 1)
    /\ result.today = <<tasks[1]>>
    /\ result.upcoming = <<tasks[2]>>

\* C15: a task without a due date is in none of Today, Upcoming and
\* Review, whatever the dates they are computed for, and it is in Anytime
\* exactly when it is not deleted and its status is not Completed: the
\* undated Inbox, Active, Scheduled and Cancelled tasks that are not
\* deleted are all in Anytime.
C15_UndatedInAnytimeOnly ==
    Classified =>
        \A i \in 1..Len(tasks) :
            LET t == tasks[i] IN
            IsNone(t.due_date) =>
                /\ ~InBucket(result.today, t)
                /\ ~InBucket(result.upcoming, t)
                /\ ~InBucket(result.review, t)
                /\ InBucket(result.anytime, t) <=> (~t.deleted /\ t.status # "Completed")
                /\ (~t.deleted /\ t.status \in {"Inbox", "Active", "Scheduled", "Cancelled"})
                        => InBucket(result.anytime, t)

C15_Witness ==
    /\ Classified
    /\ Len(tasks) = 2
    /\ IsNone(tasks[1].due_date) /\ IsNone(tasks[2].due_date)
    /\ ~tasks[1].deleted /\ ~tasks[2].deleted
    /\ tasks[1].status = "Completed"
    /\ tasks[2].status = "Cancelled"
    /\ result.anytime = <<tasks[2]>>

\* C16: when Review and Today are computed for one current date, Review
\* holds exactly the tasks of Today whose due date is before that date:
\* every task of Review is in Today, a task due on the current date is in
\* Today and not in Review.  No task of Review or of Today is in
\* Completed, whatever the dates.
C16_ReviewIsOverdueToday ==
    Classified =>
        \A i \in 1..Len(tasks) :
            LET t == tasks[i]
                date == result.dates[1]
                in_today == InBucket(result.today, t)
                in_review == InBucket(result.review, t)
            IN  /\ (in_today \/ in_review) =>
                    /\ ~InBucket(result.completed, t)
                    /\ t.status # "Completed"
                /\ result.dates[3] = date =>
                    /\ in_review => in_today
                    /\ in_review <=> (in_today /\ t.due_date[1] < date)
                    /\ (DatedOpen(t) /\ t.due_date = Some(date)) => in_today /\ ~in_review

C16_Witness ==
    /\ Classified
    /\ result.dates[3] = result.dates[1]
    /\ Len(tasks) = 2
    /\ tasks[1].due_date = Some(result.dates[1] - 1)
    /\ tasks[2].due_date = Some(result.dates[1])
    /\ result.today = tasks
    /\ result.review = <<tasks[1]>>

\* C17: the buckets computed for one refresh are the classification of the
\* task list for one date: there is a date for which Today, Upcoming and
\* Review, computed over the same tasks, are the buckets of the refresh.
C17_OneDatePerRefresh ==
    Classified =>
        \E date \in Dates :
            /\ result.today = filter_today(tasks, date)
            /\ result.upcoming = filter_upcoming(tasks, date)
            /\ result.review = filter_review(tasks, date)

\* C18: in the list sort_by_due_date returns, every task with a due date
\* is before every task without one, the tasks with a due date are in
\* ascending order of it, and two tasks with the same due date, or both
\* without one, are in ascending order of their order_index.
C18_SortedByDueDate ==
    result.op = "sort_by_due_date" =>
        /\ Len(result.out) = Len(tasks)
        /\ \A i, j \in 1..Len(result.out) :
            LET a == result.out[i]
                b == result.out[j]
            IN  i < j =>
                    /\ IsNone(a.due_date) => IsNone(b.due_date)
                    /\ (IsSome(a.due_date) /\ IsSome(b.due_date))
                            => a.due_date[1] <= b.due_date[1]
                    /\ a.due_date = b.due_date => a.order_index <= b.order_index

\* C19: group_by_date returns one group for every distinct due_date of
\* the list, the tasks without a due date forming one group of their own;
\* every task is in exactly one group, the one whose key is its due_date;
\* the tasks of a group are in the order they have in the list; and the
\* groups with a date are in ascending order of it.
C19_GroupedByDate ==
    result.op = "group_by_date" =>
        LET groups == result.out
            N == 1..Len(groups)
        IN  /\ {groups[n][1] : n \in N} = {tasks[i].due_date : i \in 1..Len(tasks)}
            /\ \A m, n \in N : m # n => groups[m][1] # groups[n][1]
            /\ \A i \in 1..Len(tasks) :
                    /\ Cardinality({<<n, k>> \in N \X (1..Len(tasks)) :
                            k <= Len(groups[n][2]) /\ groups[n][2][k] = tasks[i]}) = 1
                    /\ \A n \in N : InBucket(groups[n][2], tasks[i])
                            => groups[n][1] = tasks[i].due_date
            /\ \A n \in N : \A p, q \in 1..Len(groups[n][2]) :
                    \* the id of a task is its place in the list
                    p < q => groups[n][2][p].id < groups[n][2][q].id
            /\ \A m, n \in N :
                    (m < n /\ IsSome(groups[m][1]) /\ IsSome(groups[n][1]))
                        => groups[m][1][1] < groups[n][1][1]

C19_Witness ==
    /\ result.op = "group_by_date"
    /\ Len(tasks) = 2
    /\ tasks[1].due_date = Some(2)
    /\ tasks[2].due_date = Some(1)
    /\ result.out = << <<Some(1), <<tasks[2]>> >>, <<Some(2), <<tasks[1]>> >> >>

\* https://api.github.com/repos/{owner}/{repo}
WellFormedRepositoryUrl(url) ==
    /\ Len(url) = 6
    /\ <<url[1], url[2], url[3], url[4]>> = <<"https:", "", "api.github.com", "repos">>
    /\ url[5] # "" /\ url[6] # ""

\* https://{host}/{owner}/{repo}/...
WellFormedHtmlUrl(url) ==
    /\ Len(url) >= 5
    /\ <<url[1], url[2]>> = <<"https:", "">>
    /\ url[3] # "" /\ url[4] # "" /\ url[5] # ""

\* C20: repo_name returns repository.full_name when the item has one;
\* otherwise owner/repo of the repository_url when that URL is well
\* formed; otherwise owner/repo of the html_url when that URL is well
\* formed on github.com; and "unknown" when neither URL is well formed.
\* No item yields another name.
C20_RepoNameResolution ==
    result.op = "repo_name" =>
        LET issue == result.issue
            api == issue.repository_url
            html == issue.html_url
        IN  IF IsSome(issue.repository) THEN result.out = issue.repository[1]
            ELSE IF IsSome(api) /\ WellFormedRepositoryUrl(api[1])
                THEN result.out = <<api[1][5], api[1][6]>>
            ELSE IF WellFormedHtmlUrl(html) /\ html[3] = "github.com"
                THEN result.out = <<html[4], html[5]>>
            ELSE IF ~WellFormedHtmlUrl(html)
                THEN result.out = <<"unknown">>
            ELSE TRUE

\* C21: the rows of the tasks table are in the order of their creation,
\* the soft-deleted ones included; every task has an order_index strictly
\* greater than that of every task created before it.
C21_OrderIndexMonotonic ==
    \A i, j \in 1..Len(db_tasks) :
        i < j => db_tasks[i].order_index < db_tasks[j].order_index

\* C22: with storage that answers every query, a task created by a
\* reconciliation pass has the order_index that is one greater than the
\* greatest order_index of the rows that are not deleted at its creation
\* (1 when there is none), the tasks one pass creates have strictly
\* increasing order_index, and at all times no two tasks that are not
\* deleted have the same order_index.
C22_NextOrderIndex ==
    /\ [][OnePass =>
            \A j \in (Len(db_tasks) + 1)..Len(db_tasks') :
                /\ db_tasks'[j].order_index = MaxOrderIndex(db_tasks', j - 1) + 1
                /\ \A i \in (Len(db_tasks) + 1)..(j - 1) :
                        db_tasks'[i].order_index < db_tasks'[j].order_index]_vars
    /\ [](\A i, j \in Live(db_tasks) :
            i # j => db_tasks[i].order_index # db_tasks[j].order_index)

C22_Witness ==
    /\ AfterPass
    /\ Len(db_tasks) = 2
    /\ db_tasks[1].created_at = now /\ db_tasks[2].created_at = now
    /\ db_tasks[1].order_index = 1 /\ db_tasks[2].order_index = 2

\* A step of poll_async_messages that receives two messages, both snapshots
TwoPasses == Len(chan) = 2 /\ chan[1].ok /\ chan[2].ok /\ chan' = <<>>

\* C23: with reliable storage, when two snapshots wait in the channel the
\* poll reconciles the first to its end, reload included, and then the
\* second against the store and the caches the first has left; and when
\* the two are the same snapshot, the tables are left as one
\* reconciliation of it leaves them.
C23_QueuedSnapshots ==
    [][TwoPasses =>
        LET first == sync_github_to_tasks(CurrentStore, chan[1].data, now + 1, {})
        IN  /\ Store(db_tasks', db_projects', tasks', projects')
                    = sync_github_to_tasks(first, chan[2].data, now + 2, {})
            /\ chan[1].data = chan[2].data =>
                    /\ db_tasks' = first.db_tasks
                    /\ db_projects' = first.db_projects]_vars

\* C24: two messages that one poll receives come from two fetches that
\* were in flight together (no fetch is started while a message waits),
\* and the fetch issued first may be the one to answer last: the second
\* message is then the snapshot of the earlier fetch.  A task whose URL is
\* in the first message, the later snapshot, and not in the second is not
\* completed by the reconciliation of the second: it is Completed after
\* the poll only if it was after the reconciliation of the first.
C24_StaleSnapshotClosesNothing ==
    [][TwoPasses =>
        LET first == sync_github_to_tasks(CurrentStore, chan[1].data, now + 1, {})
        IN  \A url \in SnapshotUrls(chan[1].data) \ SnapshotUrls(chan[2].data) :
                \A i \in RowsOfUrl(db_tasks', url) :
                    db_tasks'[i].status = "completed"
                        => first.db_tasks[i].status = "completed"]_vars

\* A step of poll_async_messages
Poll == chan # <<>> /\ chan' = <<>>

\* A snapshot received by the poll holds an open item with this URL
OpenInSnapshots(url) ==
    \E m \in 1..Len(chan) :
        /\ chan[m].ok
        /\ \E k \in 1..NumItems(chan[m].data) :
                /\ github_items(chan[m].data)[k][1].html_url = url
                /\ github_items(chan[m].data)[k][1].state = "open"

\* C25: a task that is Completed when a poll begins is Completed when it
\* ends, and has a completed_at if it had one; and when it has its project and a
\* snapshot of the poll holds its item as open, its row is not written.
C25_CompletedStaysCompleted ==
    [][Poll =>
        \A i \in 1..Len(db_tasks) :
            db_tasks[i].status = "completed" =>
                /\ db_tasks'[i].status = "completed"
                /\ IsSome(db_tasks[i].completed_at) => IsSome(db_tasks'[i].completed_at)
                /\ (/\ IsSome(db_tasks[i].project_id)
                    /\ IsSome(db_tasks[i].context_url)
                    /\ OpenInSnapshots(db_tasks[i].context_url[1]))
                        => db_tasks'[i] = db_tasks[i]]_vars

\* The URLs of the snapshots a poll receives
PolledUrls == UNION {SnapshotUrls(chan[m].data) : m \in {n \in 1..Len(chan) : chan[n].ok}}

\* C26: a poll, whatever it reconciles, leaves as it is every task without
\* a context_url and every task whose context_url is not the URL of an
\* item of its snapshots and does not contain "github.com"; it sets the
\* deleted flag of no task; and it leaves every project there is as it
\* is, the projects it inserts coming after them.
C26_LocalDataUntouched ==
    [][Poll =>
        /\ \A i \in 1..Len(db_tasks) :
                LET url == db_tasks[i].context_url IN
                /\ IsNone(url) => db_tasks'[i] = db_tasks[i]
                /\ (IsSome(url) /\ url[1] \notin PolledUrls /\ ~contains_github_com(url[1]))
                        => db_tasks'[i] = db_tasks[i]
                /\ db_tasks'[i].deleted = db_tasks[i].deleted
        /\ Len(db_projects') >= Len(db_projects)
        /\ SubSeq(db_projects', 1, Len(db_projects)) = db_projects]_vars

\* A pass over a snapshot without the item of a task on another host has
\* left that task, and a task made with the form, as they were
C26_Witness ==
    /\ AfterPass
    /\ Url3 \notin SnapshotUrls(last.data)
    /\ Len(db_tasks) = 2
    /\ \E i, j \in 1..2 :
        /\ db_tasks[i].context_url = Some(Url3)
        /\ db_tasks[i].status = "inbox"
        /\ db_tasks[i].updated_at < now
        /\ IsNone(db_tasks[j].context_url)
        /\ db_tasks[j].updated_at < now

\* The number of the four buckets Today, Upcoming, Anytime and Completed
\* that hold the task t
BucketsOf(t) ==
    Cardinality({b \in {"today", "upcoming", "anytime", "completed"} : InBucket(result[b], t)})

\* C27: when the buckets are computed for one current date, every task
\* that is not deleted is in exactly one of Today, Upcoming, Anytime and
\* Completed, and a deleted task is in none of the six buckets, whatever
\* the dates.
C27_FourBucketsPartition ==
    Classified =>
        \A i \in 1..Len(tasks) :
            LET t == tasks[i] IN
            /\ (~t.deleted /\ result.dates[1] = result.dates[2]) => BucketsOf(t) = 1
            /\ t.deleted =>
                    \A b \in {"inbox", "today", "upcoming", "anytime", "completed", "review"} :
                        ~InBucket(result[b], t)

C27_Witness ==
    /\ Classified
    /\ result.dates[1] = result.dates[2]
    /\ Len(tasks) = 2
    /\ tasks[1].deleted /\ tasks[1].status = "Completed"
    /\ ~tasks[2].deleted /\ tasks[2].status = "Cancelled"
    /\ tasks[2].due_date = Some(result.dates[1] + 1)
    /\ result.upcoming = <<tasks[2]>>
    /\ result.completed = <<>>

\* C28: the loading flag of the GitHub view is set exactly when a fetch
\* has been started whose result has not been handled: one that has not
\* sent its message yet, or whose message waits in the channel.
C28_LoadingTracksFetches ==
    github_view.loading <=> (inflight + Len(chan) > 0)

\* C29: the selection of a TaskListState is absent exactly when the list
\* is empty and is otherwise an index of the list, so that selected_task
\* returns a task of the list that is there now; select_next on the last
\* task selects the first and select_previous on the first selects the
\* last.
C29_SelectionValid ==
    /\ IsNone(result.selected) <=> result.tasks = <<>>
    /\ IsSome(result.selected) =>
            /\ result.selected[1] \in 0..(Len(result.tasks) - 1)
            /\ selected_task(result) = Some(result.tasks[result.selected[1] + 1])
    /\ (result.op = "select_next" /\ result.before = Some(Len(result.tasks) - 1))
            => result.selected = Some(0)
    /\ (result.op = "select_previous" /\ result.before = Some(0))
            => result.selected = Some(Len(result.tasks) - 1)

\* The list has shrunk below the selection
C29_Witness ==
    /\ result.op = "set_tasks"
    /\ result.before = Some(2)
    /\ Len(result.tasks) = 1
    /\ result.selected = Some(0)

\* A step of toggle_task_completed, on the task last'.id
Toggle == last'.op = "toggle_task_completed" /\ now' = now + 1 /\ chan = <<>>

\* C30: toggle_task_completed on a Completed task leaves it with status
\* Inbox and no completed_at, whatever its status was before it was
\* completed; on a task that is not Completed it leaves it Completed with
\* completed_at set to the instant of the call.  Both set updated_at to
\* that instant and change nothing else of the row, and no other row.
C30_ToggleCompleted ==
    [][Toggle =>
        LET old == db_tasks[last'.id]
            new == db_tasks'[last'.id]
        IN  /\ Len(db_tasks') = Len(db_tasks)
            /\ \A i \in 1..Len(db_tasks) : i # last'.id => db_tasks'[i] = db_tasks[i]
            /\ new.updated_at = now'
            /\ IF old.status = "completed"
               THEN new = [old EXCEPT !.status = "inbox", !.completed_at = None,
                                      !.updated_at = now']
               ELSE new = [old EXCEPT !.status = "completed", !.completed_at = Some(now'),
                                      !.updated_at = now']]_vars

\* A task made at instant 1 has been completed, and then reopened at
\* instant 3: it is in Inbox
C30_Witness ==
    /\ last.op = "toggle_task_completed"
    /\ now = 3
    /\ db_tasks[last.id].created_at = 1
    /\ db_tasks[last.id].updated_at = 3
    /\ db_tasks[last.id].status = "inbox"
    /\ IsNone(db_tasks[last.id].completed_at)

====
